---- MODULE Spec2Model ----
(***************************************************************************)
(* The todo gateway (src/app.py) in front of the gRPC todo backend         *)
(* (src/todoService/server.py).  A gateway request is an asyncio           *)
(* coroutine: it issues its backend calls, is suspended until they settle, *)
(* and is then resumed to build the HTTP response.  The backend serves the *)
(* calls on a thread pool (server.py:68), so calls of the same or of       *)
(* different requests are handled in any order, and the handlers that read *)
(* a row before they write it (EditTodo, RemoveTodo) interleave between    *)
(* the read and the commit.                                                *)
(***************************************************************************)
EXTENDS Integers, Sequences, FiniteSets, TLC

\* ------------------------------------------------------------------ bounds
\* The largest row id the store hands out (AddTodo is disabled beyond it).
MaxId == 2
\* The longest batch a request carries.
MaxBatch == 2
\* Gateway requests handled concurrently (slots of the event loop).
Reqs == {1, 2}
\* Backend calls the gateway issues in one run.
MaxCalls == 3
\* Task texts a client sends.
Tasks == {"a", "b"}
\* Ids a client names in a path or in a delete batch.
Ids == 1..MaxId

BatchIndex == 1..MaxBatch

VARIABLES
    channel,       \* app.state.grpc_channel: "none", "open", "closed"
    logging_lock,  \* the request holding logging_lock, 0 when it is free
    db,            \* the backend's todo table: row id -> task
    handler,       \* per request slot: the handler running in it, or "idle"
    calls,         \* per request slot: the backend calls the handler issued
    pc,            \* per request slot: where the handler's coroutine stands
    http,          \* per request slot: the HTTP response, once produced
    issued,        \* the number of backend calls issued so far
    request        \* per request slot: the inputs of the request, in order

vars == <<channel, logging_lock, db, handler, calls, pc, http, issued, request>>

\* ------------------------------------------------------- backend messages
\* What a backend call yields to the awaiting coroutine: a response message
\* (kind "ok") or a raised grpc.RpcError (kind "err").  Message fields a
\* message type does not carry hold the protobuf default.
NoResult == [kind |-> "none", id |-> 0, task |-> "", success |-> FALSE,
             code |-> "", details |-> ""]

Todo(id, task) == [kind |-> "ok", id |-> id, task |-> task, success |-> FALSE,
                   code |-> "OK", details |-> ""]

RemoveTodoResponse(success) == [kind |-> "ok", id |-> 0, task |-> "",
                                success |-> success, code |-> "OK", details |-> ""]

ListTodosResponse(todos) == [kind |-> "ok", id |-> 0, task |-> "", success |-> FALSE,
                             code |-> "OK", details |-> "", todos |-> todos]

RpcError(code, details) == [kind |-> "err", id |-> 0, task |-> "", success |-> FALSE,
                            code |-> code, details |-> details]

\* A call as issued by the stub: not yet handled by the backend.
\* seen records what the table held for the call's id when the backend took
\* the call up ("none" before that, and for a call that names no id).
Call(rpc, id, task) == [rpc |-> rpc, id |-> id, task |-> task, st |-> "sent",
                        seen |-> "none", res |-> NoResult]

Settled(c) == c.st = "done"

\* ------------------------------------------------------------ the table
EmptyTable == [i \in {} |-> ""]

Put(t, id, task) == [i \in (DOMAIN t) \cup {id} |-> IF i = id THEN task ELSE t[i]]

Del(t, id) == [i \in (DOMAIN t) \ {id} |-> t[i]]

Max(S) == CHOOSE m \in S : \A n \in S : n <= m

\* SQLite assigns an INTEGER PRIMARY KEY left NULL one more than the largest
\* row id in the table, 1 in an empty table.
NewId(t) == IF DOMAIN t = {} THEN 1 ELSE Max(DOMAIN t) + 1

RECURSIVE Rows(_, _)
\* The rows of the table with ids in S, by ascending row id.
Rows(t, S) ==
    IF S = {} THEN <<>>
    ELSE LET m == Max(S) IN Append(Rows(t, S \ {m}), [id |-> m, task |-> t[m]])

\* ------------------------------------------------------------- helpers
SetCall(r, i, c) == calls' = [calls EXCEPT ![r][i] = c]

Settle(r, i, seen, res) ==
    SetCall(r, i, [calls[r][i] EXCEPT !.st = "done", !.seen = seen, !.res = res])

Pending(r, i, rpc) ==
    /\ pc[r] = "await"
    /\ i \in DOMAIN calls[r]
    /\ calls[r][i].rpc = rpc
    /\ calls[r][i].st = "sent"

Found(r, i, rpc) ==
    /\ pc[r] = "await"
    /\ i \in DOMAIN calls[r]
    /\ calls[r][i].rpc = rpc
    /\ calls[r][i].st = "found"

\* ------------------------------------------------------------- backend
\* AddTodo: insert, commit, refresh, return the stored row.
AddTodo(r, i) ==
    /\ Pending(r, i, "AddTodo")
    /\ NewId(db) <= MaxId
    /\ LET id == NewId(db)
           task == calls[r][i].task
       IN /\ db' = Put(db, id, task)
          /\ Settle(r, i, "none", Todo(id, task))
    /\ UNCHANGED <<channel, logging_lock, handler, pc, http, issued, request>>

\* EditTodo storing the row it did not find, and still answering NOT_FOUND.
EditTodo_get_upsert(r, i) ==
    /\ Pending(r, i, "EditTodo")
    /\ IF calls[r][i].id \in DOMAIN db
       THEN /\ SetCall(r, i, [calls[r][i] EXCEPT !.st = "found", !.seen = "present"])
            /\ db' = db
       ELSE /\ Settle(r, i, "absent", RpcError("NOT_FOUND", "Todo not found"))
            /\ db' = Put(db, calls[r][i].id, calls[r][i].task)
    /\ UNCHANGED <<channel, logging_lock, handler, pc, http, issued, request>>

\* EditTodo, up to session.get: an absent row ends the call with status
\* NOT_FOUND (a status that is not OK reaches the caller as an RpcError, the
\* empty Todo returned beside it is dropped).
EditTodo_get(r, i) ==
    /\ Pending(r, i, "EditTodo")
    /\ IF calls[r][i].id \in DOMAIN db
       THEN SetCall(r, i, [calls[r][i] EXCEPT !.st = "found", !.seen = "present"])
       ELSE Settle(r, i, "absent", RpcError("NOT_FOUND", "Todo not found"))
    /\ UNCHANGED <<channel, logging_lock, db, handler, pc, http, issued, request>>

\* EditTodo, from the assignment on: commit and refresh.  When the row was
\* deleted since the read, the UPDATE matches no row, the commit raises and
\* the call ends with status UNKNOWN.
EditTodo_commit(r, i) ==
    /\ Found(r, i, "EditTodo")
    /\ LET id == calls[r][i].id
           task == calls[r][i].task
       IN IF id \in DOMAIN db
          THEN /\ db' = Put(db, id, task)
               /\ Settle(r, i, "present", Todo(id, task))
          ELSE /\ db' = db
               /\ Settle(r, i, "present",
                         RpcError("UNKNOWN", "Exception calling application"))
    /\ UNCHANGED <<channel, logging_lock, handler, pc, http, issued, request>>

\* ListTodos: every row, in the order the table yields them.
ListTodos(r, i) ==
    /\ Pending(r, i, "ListTodos")
    /\ Settle(r, i, "none", ListTodosResponse(Rows(db, DOMAIN db)))
    /\ UNCHANGED <<channel, logging_lock, db, handler, pc, http, issued, request>>

\* RemoveTodo, up to session.get: an absent row is answered success=False.
RemoveTodo_get(r, i) ==
    /\ Pending(r, i, "RemoveTodo")
    /\ IF calls[r][i].id \in DOMAIN db
       THEN SetCall(r, i, [calls[r][i] EXCEPT !.st = "found", !.seen = "present"])
       ELSE Settle(r, i, "absent", RemoveTodoResponse(FALSE))
    /\ UNCHANGED <<channel, logging_lock, db, handler, pc, http, issued, request>>

\* RemoveTodo, from session.delete on: delete, commit, answer success=True.
\* The DELETE of a row another call removed since the read matches no row,
\* which the session only warns about: success=True is answered all the same.
RemoveTodo_commit(r, i) ==
    /\ Found(r, i, "RemoveTodo")
    /\ db' = Del(db, calls[r][i].id)
    /\ Settle(r, i, "present", RemoveTodoResponse(TRUE))
    /\ UNCHANGED <<channel, logging_lock, handler, pc, http, issued, request>>

\* What the table holds for the id a call names, as the backend takes it up.
Seen(id) == IF id \in DOMAIN db THEN "present" ELSE "absent"

\* GetTodo: TodoServiceServicer defines no GetTodo, so the call is answered
\* by the servicer base class: status UNIMPLEMENTED, whatever the table holds.
GetTodo(r, i) ==
    /\ Pending(r, i, "GetTodo")
    /\ Settle(r, i, Seen(calls[r][i].id),
              RpcError("UNIMPLEMENTED", "Method not implemented!"))
    /\ UNCHANGED <<channel, logging_lock, db, handler, pc, http, issued, request>>

\* A call that does not reach the backend (it is down, or the connection
\* breaks): the stub raises an RpcError with status UNAVAILABLE.
TransportFailure(r, i) ==
    /\ pc[r] = "await"
    /\ i \in DOMAIN calls[r]
    /\ calls[r][i].st = "sent"
    /\ Settle(r, i, "none", RpcError("UNAVAILABLE", "failed to connect"))
    /\ UNCHANGED <<channel, logging_lock, db, handler, pc, http, issued, request>>

Backend(r, i) ==
    \/ AddTodo(r, i)
    \/ EditTodo_get(r, i)
    \/ EditTodo_commit(r, i)
    \/ ListTodos(r, i)
    \/ RemoveTodo_get(r, i)
    \/ RemoveTodo_commit(r, i)
    \/ GetTodo(r, i)
    \/ TransportFailure(r, i)

\* ------------------------------------------------------ response models
TodoResponse(id, task) == [id |-> id, task |-> task]

TodoListResponse(todos) == [todos |-> todos]

\* message is the f-string "Todo {todo_id} deleted successfully".
DeleteResponse(success, todo_id) ==
    [success |-> success, message |-> <<"Todo ", todo_id, " deleted successfully">>]

NoBody == [none |-> TRUE]

NoResponse == [status |-> 0, detail |-> <<>>, body |-> NoBody]

\* A handler's return value, sent with the route's status code.
Response(status, body) == [status |-> status, detail |-> <<>>, body |-> body]

HTTPException(status_code, detail) ==
    [status |-> status_code, detail |-> detail, body |-> NoBody]

\* The f-string "gRPC error: {e.details()}".
GrpcErrorDetail(e) == <<"gRPC error: ", e.details>>

TodoNotFound == <<"Todo not found">>

IsException(response) == response.kind = "err"

\* ---------------------------------------- single-item handlers, resumed
\* Each is the handler from the line after its await: the outcome of the
\* backend call to the HTTP response.
create_todo_response(res) ==
    IF IsException(res)
    THEN HTTPException(500, GrpcErrorDetail(res))
    ELSE Response(201, TodoResponse(res.id, res.task))

list_todos_response(res) ==
    IF IsException(res)
    THEN HTTPException(500, GrpcErrorDetail(res))
    ELSE Response(200, TodoListResponse(
             [i \in DOMAIN res.todos |-> TodoResponse(res.todos[i].id, res.todos[i].task)]))

\* get_todo with the not-found test written with "or" for "and".
get_todo_response_or(res) ==
    IF IsException(res)
    THEN IF res.code = "NOT_FOUND"
         THEN HTTPException(404, TodoNotFound)
         ELSE HTTPException(500, GrpcErrorDetail(res))
    ELSE IF res.id = 0 \/ res.task = ""
         THEN HTTPException(404, TodoNotFound)
         ELSE Response(200, TodoResponse(res.id, res.task))

get_todo_response(res) ==
    IF IsException(res)
    THEN IF res.code = "NOT_FOUND"
         THEN HTTPException(404, TodoNotFound)
         ELSE HTTPException(500, GrpcErrorDetail(res))
    ELSE IF res.id = 0 /\ res.task = ""
         THEN HTTPException(404, TodoNotFound)
         ELSE Response(200, TodoResponse(res.id, res.task))

update_todo_response(res) ==
    IF IsException(res)
    THEN IF res.code = "NOT_FOUND"
         THEN HTTPException(404, TodoNotFound)
         ELSE HTTPException(500, GrpcErrorDetail(res))
    ELSE IF res.id = 0 /\ res.task = ""
         THEN HTTPException(404, TodoNotFound)
         ELSE Response(200, TodoResponse(res.id, res.task))

\* delete_todo without the test of response.success.
delete_todo_response_unchecked(res, todo_id) ==
    IF IsException(res)
    THEN HTTPException(500, GrpcErrorDetail(res))
    ELSE Response(200, DeleteResponse(TRUE, todo_id))

\* delete_todo with the NOT_FOUND branch of get_todo and update_todo.
delete_todo_response_not_found(res, todo_id) ==
    IF IsException(res)
    THEN IF res.code = "NOT_FOUND"
         THEN HTTPException(404, TodoNotFound)
         ELSE HTTPException(500, GrpcErrorDetail(res))
    ELSE IF ~res.success
         THEN HTTPException(404, TodoNotFound)
         ELSE Response(200, DeleteResponse(TRUE, todo_id))

delete_todo_response(res, todo_id) ==
    IF IsException(res)
    THEN HTTPException(500, GrpcErrorDetail(res))
    ELSE IF ~res.success
         THEN HTTPException(404, TodoNotFound)
         ELSE Response(200, DeleteResponse(TRUE, todo_id))

\* ------------------------------------------------------ batch handlers
\* gather without return_exceptions: it also returns at the first call that
\* raised.
GatherDone_first_exception(cs) ==
    \/ \A i \in DOMAIN cs : Settled(cs[i])
    \/ \E i \in DOMAIN cs : Settled(cs[i]) /\ cs[i].res.kind = "err"

\* asyncio.gather(*tasks, return_exceptions=True) returns once every call
\* has settled, with each call's response or exception at the call's index.
GatherDone(cs) == \A i \in DOMAIN cs : Settled(cs[i])

gather(cs) == [i \in DOMAIN cs |-> cs[i].res]

\* str(response) of a raised RpcError.
ErrorStr(e) == <<"AioRpcError", e.code, e.details>>

\* The dict create_todos_batch appends for one response.
create_result(response) ==
    IF IsException(response)
    THEN [success |-> FALSE, error |-> ErrorStr(response)]
    ELSE [success |-> TRUE, id |-> response.id, task |-> response.task]

RECURSIVE create_loop(_, _)
\* The for loop of create_todos_batch over responses[1..n]: the locals
\* results, success_count and failed_count after it.
create_loop(responses, n) ==
    IF n = 0
    THEN [results |-> <<>>, success_count |-> 0, failed_count |-> 0]
    ELSE LET acc == create_loop(responses, n - 1)
             response == responses[n]
         IN [results |-> Append(acc.results, create_result(response)),
             success_count |-> acc.success_count + (IF IsException(response) THEN 0 ELSE 1),
             failed_count |-> acc.failed_count + (IF IsException(response) THEN 1 ELSE 0)]

\* The delete loop's test without "or not response.success".
delete_failed_exception_only(response) == IsException(response)

delete_failed(response) == IsException(response) \/ ~response.success

RECURSIVE delete_loop(_, _)
\* The for loop of delete_todos_batch over responses[1..n].
delete_loop(responses, n) ==
    IF n = 0
    THEN [success_count |-> 0, failed_count |-> 0]
    ELSE LET acc == delete_loop(responses, n - 1)
             response == responses[n]
         IN [success_count |-> acc.success_count + (IF delete_failed(response) THEN 0 ELSE 1),
             failed_count |-> acc.failed_count + (IF delete_failed(response) THEN 1 ELSE 0)]

\* results: List[TodoResponse] takes a dict that has id and task, and keeps
\* only those two fields of it.
ValidTodoResponse(d) == "id" \in DOMAIN d /\ "task" \in DOMAIN d

\* BatchResponse(...): the validated model, or the ValidationError raised
\* when an element of results is no TodoResponse.
BatchResponse(success_count, failure_count, results) ==
    IF \A i \in DOMAIN results : ValidTodoResponse(results[i])
    THEN [ok |-> TRUE,
          value |-> [success_count |-> success_count,
                     failure_count |-> failure_count,
                     results |-> [i \in DOMAIN results |->
                                     TodoResponse(results[i].id, results[i].task)]]]
    ELSE [ok |-> FALSE, value |-> <<"ValidationError", "BatchResponse">>]

\* create_todos_batch from the line after gather to its return: an
\* exception raised on the way is caught and raised as an HTTP 500.
create_todos_batch_response(responses) ==
    LET acc == create_loop(responses, Len(responses))
        model == BatchResponse(acc.success_count, acc.failed_count, acc.results)
    IN IF model.ok
       THEN Response(201, model.value)
       ELSE HTTPException(500, model.value)

delete_todos_batch_response(responses) ==
    LET acc == delete_loop(responses, Len(responses))
        model == BatchResponse(acc.success_count, acc.failed_count, <<>>)
    IN IF model.ok
       THEN Response(200, model.value)
       ELSE HTTPException(500, model.value)

\* ------------------------------------------------------------ lifespan
InFlight(r) == pc[r] \in {"await", "locked"}

lifespan_startup ==
    /\ channel = "none"
    /\ channel' = "open"
    /\ UNCHANGED <<logging_lock, db, handler, calls, pc, http, issued, request>>

\* The teardown runs once the server has drained its requests.
lifespan_shutdown ==
    /\ channel = "open"
    /\ \A r \in Reqs : ~InFlight(r)
    /\ channel' = "closed"
    /\ UNCHANGED <<logging_lock, db, handler, calls, pc, http, issued, request>>

\* ---------------------------------------------------- gateway requests
\* A handler that opens the channel itself when it finds none.
Begin_lazy_channel(r, name, inputs, cs) ==
    /\ channel \in {"none", "open"}
    /\ channel' = "open"
    /\ ~InFlight(r)
    /\ issued + Len(cs) <= MaxCalls
    /\ issued' = issued + Len(cs)
    /\ handler' = [handler EXCEPT ![r] = name]
    /\ calls' = [calls EXCEPT ![r] = cs]
    /\ pc' = [pc EXCEPT ![r] = "await"]
    /\ http' = [http EXCEPT ![r] = NoResponse]
    /\ request' = [request EXCEPT ![r] = inputs]
    /\ UNCHANGED <<logging_lock, db>>

\* A request enters a free slot: the handler runs up to its await, with the
\* backend calls it issued through app.state.grpc_stub.
Begin(r, name, inputs, cs) ==
    /\ channel = "open"
    /\ ~InFlight(r)
    /\ issued + Len(cs) <= MaxCalls
    /\ issued' = issued + Len(cs)
    /\ handler' = [handler EXCEPT ![r] = name]
    /\ calls' = [calls EXCEPT ![r] = cs]
    /\ pc' = [pc EXCEPT ![r] = "await"]
    /\ http' = [http EXCEPT ![r] = NoResponse]
    /\ request' = [request EXCEPT ![r] = inputs]
    /\ UNCHANGED <<channel, logging_lock, db>>

\* The handler of a single-item request is resumed with its call's outcome
\* and returns or raises.
Resume(r, name, response) ==
    /\ handler[r] = name
    /\ pc[r] = "await"
    /\ GatherDone(calls[r])
    /\ http' = [http EXCEPT ![r] = response]
    /\ pc' = [pc EXCEPT ![r] = "done"]
    /\ UNCHANGED <<channel, logging_lock, db, handler, calls, issued, request>>

create_todo(r) ==
    \E task \in Tasks : Begin(r, "create_todo", <<task>>, <<Call("AddTodo", 0, task)>>)

\* create_todo calling AddTodo again when the call raised.
create_todo_return_retry(r) ==
    \/ /\ handler[r] = "create_todo"
       /\ pc[r] = "await"
       /\ GatherDone(calls[r])
       /\ IsException(calls[r][1].res)
       /\ calls' = [calls EXCEPT ![r] = <<Call("AddTodo", 0, calls[r][1].task)>>]
       /\ UNCHANGED <<channel, logging_lock, db, handler, pc, http, issued, request>>
    \/ /\ handler[r] = "create_todo"
       /\ pc[r] = "await"
       /\ GatherDone(calls[r])
       /\ ~IsException(calls[r][1].res)
       /\ Resume(r, "create_todo", create_todo_response(calls[r][1].res))

create_todo_return(r) ==
    Resume(r, "create_todo", create_todo_response(calls[r][1].res))

list_todos(r) == Begin(r, "list_todos", <<>>, <<Call("ListTodos", 0, "")>>)

list_todos_return(r) ==
    Resume(r, "list_todos", list_todos_response(calls[r][1].res))

get_todo(r) ==
    \E todo_id \in Ids : Begin(r, "get_todo", <<todo_id>>, <<Call("GetTodo", todo_id, "")>>)

\* get_todo answering from a gateway-side quota: past the first backend call
\* of the run the request is refused.
get_todo_return_quota(r) ==
    Resume(r, "get_todo",
           IF issued > 1
           THEN HTTPException(429, <<"Too many requests">>)
           ELSE get_todo_response(calls[r][1].res))

get_todo_return(r) ==
    Resume(r, "get_todo", get_todo_response(calls[r][1].res))

update_todo(r) ==
    \E todo_id \in Ids, task \in Tasks :
        Begin(r, "update_todo", <<todo_id, task>>, <<Call("EditTodo", todo_id, task)>>)

update_todo_return(r) ==
    Resume(r, "update_todo", update_todo_response(calls[r][1].res))

delete_todo(r) ==
    \E todo_id \in Ids : Begin(r, "delete_todo", <<todo_id>>, <<Call("RemoveTodo", todo_id, "")>>)

delete_todo_return(r) ==
    Resume(r, "delete_todo", delete_todo_response(calls[r][1].res, calls[r][1].id))

\* Sequences over S of length 0..MaxBatch.
Batches(S) == UNION {[1..n -> S] : n \in 0..MaxBatch}

create_todos_batch(r) ==
    \E tasks \in Batches(Tasks) :
        Begin(r, "create_todos_batch", tasks,
              [i \in DOMAIN tasks |-> Call("AddTodo", 0, tasks[i])])

delete_todos_batch(r) ==
    \E ids \in Batches(Ids) :
        Begin(r, "delete_todos_batch", ids,
              [i \in DOMAIN ids |-> Call("RemoveTodo", ids[i], "")])

IsBatch(r) == handler[r] \in {"create_todos_batch", "delete_todos_batch"}

\* The batch handlers entering the loop without taking logging_lock.
batch_acquire_unguarded(r) ==
    /\ IsBatch(r)
    /\ pc[r] = "await"
    /\ GatherDone(calls[r])
    /\ logging_lock' = r
    /\ pc' = [pc EXCEPT ![r] = "locked"]
    /\ UNCHANGED <<channel, db, handler, calls, http, issued, request>>

\* gather has returned and the handler enters "async with logging_lock".
batch_acquire(r) ==
    /\ IsBatch(r)
    /\ pc[r] = "await"
    /\ GatherDone(calls[r])
    /\ logging_lock = 0
    /\ logging_lock' = r
    /\ pc' = [pc EXCEPT ![r] = "locked"]
    /\ UNCHANGED <<channel, db, handler, calls, http, issued, request>>

\* The lock taken with acquire() and released only on the normal path: the
\* request that answers with the HTTP 500 of the except keeps it.
batch_return_leak(r, name, response) ==
    /\ handler[r] = name
    /\ pc[r] = "locked"
    /\ logging_lock = r
    /\ logging_lock' = IF response.status = 500 THEN r ELSE 0
    /\ http' = [http EXCEPT ![r] = response]
    /\ pc' = [pc EXCEPT ![r] = "done"]
    /\ UNCHANGED <<channel, db, handler, calls, issued, request>>

\* The loop under the lock, the release of the lock on leaving the with
\* block, and the return of the response (or the HTTP 500 of the except).
batch_return(r, name, response) ==
    /\ handler[r] = name
    /\ pc[r] = "locked"
    /\ logging_lock = r
    /\ logging_lock' = 0
    /\ http' = [http EXCEPT ![r] = response]
    /\ pc' = [pc EXCEPT ![r] = "done"]
    /\ UNCHANGED <<channel, db, handler, calls, issued, request>>

\* delete_todos_batch counting in counters shared by every request: the
\* RemoveTodo responses of all requests handled so far are counted.
delete_todos_batch_return_shared(r) ==
    LET all == SelectSeq(calls[1] \o calls[2],
                         LAMBDA c : Settled(c) /\ c.rpc = "RemoveTodo")
    IN batch_return(r, "delete_todos_batch", delete_todos_batch_response(gather(all)))

create_todos_batch_return(r) ==
    batch_return(r, "create_todos_batch", create_todos_batch_response(gather(calls[r])))

delete_todos_batch_return(r) ==
    batch_return(r, "delete_todos_batch", delete_todos_batch_response(gather(calls[r])))

Init ==
    /\ channel = "none"
    /\ logging_lock = 0
    /\ db = EmptyTable
    /\ handler = [r \in Reqs |-> "idle"]
    /\ calls = [r \in Reqs |-> <<>>]
    /\ pc = [r \in Reqs |-> "idle"]
    /\ http = [r \in Reqs |-> NoResponse]
    /\ issued = 0
    /\ request = [r \in Reqs |-> <<>>]

Next ==
    \/ lifespan_startup
    \/ lifespan_shutdown
    \/ \E r \in Reqs :
        \/ create_todo(r)
        \/ create_todo_return(r)
        \/ list_todos(r)
        \/ list_todos_return(r)
        \/ get_todo(r)
        \/ get_todo_return(r)
        \/ update_todo(r)
        \/ update_todo_return(r)
        \/ delete_todo(r)
        \/ delete_todo_return(r)
        \/ create_todos_batch(r)
        \/ create_todos_batch_return(r)
        \/ delete_todos_batch(r)
        \/ delete_todos_batch_return(r)
        \/ batch_acquire(r)
    \/ \E r \in Reqs, i \in BatchIndex : Backend(r, i)

Spec == Init /\ [][Next]_vars

\* ------------------------------------------------------------ scheduling
\* The event loop runs every handler that can continue, and asyncio.Lock
\* wakes its waiters in the order they arrived: a batch request that finds
\* the lock free again and again is not passed over for ever.
LockFairness ==
    \A r \in Reqs :
        /\ SF_vars(batch_acquire(r))
        /\ WF_vars(create_todos_batch_return(r))
        /\ WF_vars(delete_todos_batch_return(r))

\* Every backend call eventually settles: a pool thread of the server takes
\* each step of a call, or the stub gives up on it.
BackendFairness ==
    \A r \in Reqs, i \in BatchIndex : WF_vars(Backend(r, i))

FairSpec == Spec /\ LockFairness /\ BackendFairness

\* ------------------------------------- the gateway against any backend
\* What the stub can hand a handler: any response message of the call's
\* type, or an RpcError with any status.
StatusCodes == {"NOT_FOUND", "UNAVAILABLE", "UNKNOWN", "UNIMPLEMENTED"}

Details == {"Todo not found", "failed to connect"}

RpcErrors == {RpcError(code, details) : code \in StatusCodes, details \in Details}

TodoMessages == {Todo(id, task) : id \in 0..MaxId, task \in Tasks \cup {""}}

Replies(rpc) ==
    RpcErrors \cup
    CASE rpc \in {"AddTodo", "EditTodo", "GetTodo"} -> TodoMessages
      [] rpc = "RemoveTodo" -> {RemoveTodoResponse(b) : b \in BOOLEAN}
      [] rpc = "ListTodos" ->
            {ListTodosResponse(todos) :
                todos \in {<<>>, <<[id |-> 1, task |-> "a"]>>,
                           <<[id |-> 1, task |-> "a"], [id |-> 2, task |-> ""]>>}}

SingleRpc ==
    [create_todo |-> "AddTodo", list_todos |-> "ListTodos", get_todo |-> "GetTodo",
     update_todo |-> "EditTodo", delete_todo |-> "RemoveTodo"]

\* One single-item request, suspended in its await, whose call has just
\* settled with some reply.
InitGateway ==
    /\ channel = "open"
    /\ logging_lock = 0
    /\ db = EmptyTable
    /\ issued = 1
    /\ \E name \in DOMAIN SingleRpc, todo_id \in Ids :
       \E reply \in Replies(SingleRpc[name]) :
          /\ handler = [r \in Reqs |-> IF r = 1 THEN name ELSE "idle"]
          /\ calls = [r \in Reqs |->
                        IF r = 1
                        THEN <<[Call(SingleRpc[name], todo_id, "") EXCEPT
                                   !.st = "done", !.res = reply]>>
                        ELSE <<>>]
          /\ request = [r \in Reqs |-> IF r = 1 THEN <<todo_id>> ELSE <<>>]
    /\ pc = [r \in Reqs |-> IF r = 1 THEN "await" ELSE "idle"]
    /\ http = [r \in Reqs |-> NoResponse]

NextGateway ==
    \E r \in Reqs :
        \/ create_todo_return(r)
        \/ list_todos_return(r)
        \/ get_todo_return(r)
        \/ update_todo_return(r)
        \/ delete_todo_return(r)

SpecGateway == InitGateway /\ [][NextGateway]_vars

TypeOK ==
    /\ channel \in {"none", "open", "closed"}
    /\ logging_lock \in Reqs \cup {0}
    /\ DOMAIN db \subseteq 1..MaxId
    /\ \A i \in DOMAIN db : db[i] \in Tasks
    /\ DOMAIN handler = Reqs
    /\ \A r \in Reqs : Len(calls[r]) <= MaxBatch

\* ------------------------------------------------------------- claims
Done(r) == pc[r] = "done"

CallOk(c) == Settled(c) /\ c.res.kind = "ok"

CallFailed(c) == Settled(c) /\ c.res.kind = "err"

\* A batch item that failed: its call raised, or (delete) answered
\* success=False.
ItemFailed(r, i) ==
    \/ CallFailed(calls[r][i])
    \/ handler[r] = "delete_todos_batch" /\ CallOk(calls[r][i]) /\ ~calls[r][i].res.success

ItemSucceeded(r, i) == Settled(calls[r][i]) /\ ~ItemFailed(r, i)

BatchStatus(r) == IF handler[r] = "create_todos_batch" THEN 201 ELSE 200

\* C1: a batch in which an item fails while the others succeed is still
\* answered 201 (create) or 200 (delete), never with an HTTP error.
C1_PartialFailureIsNoHttpError ==
    \A r \in Reqs :
        (/\ Done(r) /\ IsBatch(r)
         /\ \E i \in DOMAIN calls[r] : ItemFailed(r, i)
         /\ \E i \in DOMAIN calls[r] : ItemSucceeded(r, i))
        => http[r].status = BatchStatus(r)

\* C2: the response of every batch of N inputs carries counts with
\* success_count + failure_count = N, whatever the mix of outcomes.
C2_CountsSumToN ==
    \A r \in Reqs :
        (Done(r) /\ IsBatch(r))
        => /\ http[r].status = BatchStatus(r)
           /\ http[r].body.success_count + http[r].body.failure_count = Len(calls[r])

\* C3: the response of every create batch carries one result per task, and
\* results[i] is the outcome of the call issued for tasks[i].
C3_ResultsAlignedWithTasks ==
    \A r \in Reqs :
        (Done(r) /\ handler[r] = "create_todos_batch")
        => /\ http[r].status = 201
           /\ Len(http[r].body.results) = Len(calls[r])
           /\ \A i \in DOMAIN calls[r] :
                 CallOk(calls[r][i])
                 => /\ http[r].body.results[i].id = calls[r][i].res.id
                    /\ http[r].body.results[i].task = calls[r][i].res.task

\* The request in slot r is the only one that has issued backend calls, and
\* every one of them was accepted.
AloneAndAccepted(r) ==
    /\ issued = Len(calls[r])
    /\ \A i \in DOMAIN calls[r] : CallOk(calls[r][i])

\* C4: a create batch of tasks "a", "b" on an empty backend that accepts
\* both is answered with counts 2 and 0 and the results
\* {success, id 1, task "a"}, {success, id 2, task "b"}.
C4_BatchOfTwoScenario ==
    \A r \in Reqs :
        (/\ Done(r) /\ handler[r] = "create_todos_batch"
         /\ Len(calls[r]) = 2
         /\ calls[r][1].task = "a" /\ calls[r][2].task = "b"
         /\ AloneAndAccepted(r))
        => http[r] = Response(201,
               [success_count |-> 2, failure_count |-> 0,
                results |-> <<[success |-> TRUE, id |-> 1, task |-> "a"],
                              [success |-> TRUE, id |-> 2, task |-> "b"]>>])

\* C5: a get or an update of an id the store does not hold is answered 404
\* with detail "Todo not found".
C5_AbsentIdIs404 ==
    \A r \in Reqs :
        (/\ Done(r) /\ handler[r] \in {"get_todo", "update_todo"}
         /\ calls[r][1].seen = "absent")
        => http[r] = HTTPException(404, TodoNotFound)

Singles == {"create_todo", "list_todos", "get_todo", "update_todo", "delete_todo"}

\* C6: DELETE /todos/{id} is answered 404 when the store holds no todo with
\* that id and 200 with success=true when it does; the delete leaves the
\* store without that id, and a RemoveTodo that finds no row says so.
C6_DeleteAnswers ==
    \A r \in Reqs :
        (Done(r) /\ handler[r] = "delete_todo")
        => /\ calls[r][1].seen = "absent" => http[r] = HTTPException(404, TodoNotFound)
           /\ calls[r][1].seen = "present"
              => /\ http[r].status = 200
                 /\ http[r].body.success = TRUE

C6_DeleteRemoves ==
    \A r \in Reqs, i \in BatchIndex :
        /\ RemoveTodo_commit(r, i) => calls[r][i].id \notin DOMAIN db'
        /\ (RemoveTodo_get(r, i) /\ calls[r][i].id \notin DOMAIN db)
           => /\ calls'[r][i].res = RemoveTodoResponse(FALSE)
              /\ db' = db

C6_Delete == []C6_DeleteAnswers /\ [][C6_DeleteRemoves]_vars

\* A DELETE answered 200 and a DELETE of the same id answered 404.
C6_Witness ==
    \E r1, r2 \in Reqs :
        /\ Done(r1) /\ handler[r1] = "delete_todo" /\ http[r1].status = 200
        /\ Done(r2) /\ handler[r2] = "delete_todo" /\ http[r2].status = 404
        /\ calls[r1][1].id = calls[r2][1].id
        /\ calls[r1][1].id \notin DOMAIN db

Removed(r) == {i \in DOMAIN calls[r] : CallOk(calls[r][i]) /\ calls[r][i].res.success}

\* C7: a delete batch is answered 200 with success_count the number of
\* RemoveTodo calls that returned success=true, failure_count the number of
\* all other items, and empty results.
C7_DeleteBatchCounts ==
    \A r \in Reqs :
        (Done(r) /\ handler[r] = "delete_todos_batch")
        => http[r] = Response(200,
               [success_count |-> Cardinality(Removed(r)),
                failure_count |-> Len(calls[r]) - Cardinality(Removed(r)),
                results |-> <<>>])

\* A delete batch of two ids of which only the first is stored.
C7_Witness ==
    \E r \in Reqs :
        /\ Done(r) /\ handler[r] = "delete_todos_batch"
        /\ Len(calls[r]) = 2
        /\ calls[r][1].res = RemoveTodoResponse(TRUE)
        /\ calls[r][2].res = RemoveTodoResponse(FALSE) /\ calls[r][2].seen = "absent"
        /\ http[r].body = [success_count |-> 1, failure_count |-> 1, results |-> <<>>]

\* C8 as stated: every single-item handler answers a call that failed with
\* status NOT_FOUND by 404 "Todo not found" and any other failed call by 500
\* with the backend's detail string as detail.
C8_OneMappingForEveryHandler ==
    \A r \in Reqs :
        (Done(r) /\ handler[r] \in Singles /\ CallFailed(calls[r][1]))
        => http[r] = IF calls[r][1].res.code = "NOT_FOUND"
                     THEN HTTPException(404, TodoNotFound)
                     ELSE HTTPException(500, <<calls[r][1].res.details>>)

\* C8 as amended: get and update answer a call that failed with status
\* NOT_FOUND by 404 "Todo not found"; every other failed call, and every
\* failed call of create, list and delete, is answered 500 with the detail
\* "gRPC error: " followed by the backend's detail string.
C8_ErrorTranslation ==
    \A r \in Reqs :
        (Done(r) /\ handler[r] \in Singles /\ CallFailed(calls[r][1]))
        => http[r] = IF /\ handler[r] \in {"get_todo", "update_todo"}
                        /\ calls[r][1].res.code = "NOT_FOUND"
                     THEN HTTPException(404, TodoNotFound)
                     ELSE HTTPException(500, <<"gRPC error: ", calls[r][1].res.details>>)

\* A delete whose call failed with status NOT_FOUND, answered 500.
C8_Witness ==
    \E r \in Reqs :
        /\ Done(r) /\ handler[r] = "delete_todo"
        /\ CallFailed(calls[r][1]) /\ calls[r][1].res.code = "NOT_FOUND"
        /\ http[r].status = 500

\* C9: get and update answer 404 to a successful backend response exactly
\* when it is the record with id 0 and empty task; any other one is
\* answered 200 with the same id and task.
C9_SentinelOnlyIsNotFound ==
    \A r \in Reqs :
        (Done(r) /\ handler[r] \in {"get_todo", "update_todo"} /\ CallOk(calls[r][1]))
        => http[r] = IF calls[r][1].res.id = 0 /\ calls[r][1].res.task = ""
                     THEN HTTPException(404, TodoNotFound)
                     ELSE Response(200, [id |-> calls[r][1].res.id,
                                         task |-> calls[r][1].res.task])

\* A get answered 200 for a record with an id and an empty task.
C9_Witness ==
    \E r \in Reqs :
        /\ Done(r) /\ handler[r] = "get_todo" /\ CallOk(calls[r][1])
        /\ calls[r][1].res.id # 0 /\ calls[r][1].res.task = ""
        /\ http[r].status = 200

\* C10: a batch request leaves its await, and has a response, only when
\* every one of its backend calls has settled.
C10_ResponseAfterAllSettled ==
    \A r \in Reqs :
        (IsBatch(r) /\ (pc[r] \in {"locked", "done"} \/ http[r] # NoResponse))
        => \A i \in DOMAIN calls[r] : Settled(calls[r][i])

\* A batch answered after its first call failed and its second was served.
C10_Witness ==
    \E r \in Reqs :
        /\ Done(r) /\ IsBatch(r) /\ Len(calls[r]) = 2
        /\ CallFailed(calls[r][1])
        /\ CallOk(calls[r][2])

\* The backend took the call up (it did not fail on the way there).
Served(c) == Settled(c) /\ c.seen # "none"

\* C11: two GET /todos/{id} of the same id are answered with the same
\* status, and with the same response when the backend took both up; no
\* create, update or delete between them is needed for that.
C11_GetAnswersAgree ==
    \A r1, r2 \in Reqs :
        (/\ Done(r1) /\ handler[r1] = "get_todo"
         /\ Done(r2) /\ handler[r2] = "get_todo"
         /\ calls[r1][1].id = calls[r2][1].id)
        => /\ http[r1].status = http[r2].status
           /\ (Served(calls[r1][1]) /\ Served(calls[r2][1])) => http[r1] = http[r2]

\* Two answered gets of one id, both taken up by the backend.
C11_Witness ==
    \E r1, r2 \in Reqs :
        /\ r1 # r2
        /\ Done(r1) /\ handler[r1] = "get_todo" /\ Served(calls[r1][1])
        /\ Done(r2) /\ handler[r2] = "get_todo" /\ Served(calls[r2][1])
        /\ calls[r1][1].id = calls[r2][1].id
        /\ http[r1] = http[r2]

Running(r) == pc[r] \in {"await", "locked"}

\* The step takes a new request into slot r.
Begins(r) == ~Running(r) /\ pc'[r] = "await"

\* The backend method a handler calls.
RpcOf(name) ==
    CASE name = "create_todos_batch" -> "AddTodo"
      [] name = "delete_todos_batch" -> "RemoveTodo"
      [] OTHER -> SingleRpc[name]

\* The calls of the request in slot r: one for a single-item request, one
\* per input element, in order, for a batch.
C12_OneCallPerInput ==
    \A r \in Reqs :
        handler[r] # "idle"
        => /\ \A i \in DOMAIN calls[r] : calls[r][i].rpc = RpcOf(handler[r])
           /\ handler[r] \in Singles => Len(calls[r]) = 1
           /\ handler[r] = "create_todos_batch"
              => /\ Len(calls[r]) = Len(request[r])
                 /\ \A i \in DOMAIN calls[r] : calls[r][i].task = request[r][i]
           /\ handler[r] = "delete_todos_batch"
              => /\ Len(calls[r]) = Len(request[r])
                 /\ \A i \in DOMAIN calls[r] : calls[r][i].id = request[r][i]

\* No step adds a call to a running request, issues a call again or changes
\* the outcome of a settled call; calls are issued only as a request begins.
C12_NoFurtherCall ==
    /\ \A r \in Reqs :
          /\ Begins(r) => issued' = issued + Len(calls'[r])
          /\ ~Begins(r)
             => /\ Len(calls'[r]) = Len(calls[r])
                /\ \A i \in DOMAIN calls[r] :
                      /\ calls'[r][i].rpc = calls[r][i].rpc
                      /\ calls'[r][i].id = calls[r][i].id
                      /\ calls'[r][i].task = calls[r][i].task
                      /\ calls[r][i].st # "sent" => calls'[r][i].st # "sent"
                      /\ Settled(calls[r][i]) => calls'[r][i] = calls[r][i]
    /\ (\A r \in Reqs : ~Begins(r)) => issued' = issued

\* C12: a single-item request issues exactly one backend call and a batch
\* of N inputs exactly N, one per input element, with no retry and no
\* further call.
C12_ExactlyOneCallPerInput == []C12_OneCallPerInput /\ [][C12_NoFurtherCall]_vars

\* An answered delete batch that names one id twice, with its two calls.
C12_Witness ==
    \E r \in Reqs :
        /\ Done(r) /\ handler[r] = "delete_todos_batch"
        /\ Len(request[r]) = 2 /\ request[r][1] = request[r][2]
        /\ Len(calls[r]) = 2
        /\ issued = 2

\* The requests inside the region guarded by logging_lock.
InRegion == {r \in Reqs : pc[r] = "locked"}

\* C13: at most one batch request is inside the lock-guarded aggregation
\* region at any time, and it is the one holding logging_lock.
C13_AggregationIsExclusive ==
    /\ Cardinality(InRegion) <= 1
    /\ \A r \in InRegion : logging_lock = r /\ IsBatch(r)
    /\ logging_lock # 0 => logging_lock \in InRegion

\* One batch inside the region while another, its calls settled, waits for
\* the lock.
C13_Witness ==
    \E r1, r2 \in Reqs :
        /\ r1 # r2
        /\ pc[r1] = "locked"
        /\ IsBatch(r2) /\ pc[r2] = "await" /\ GatherDone(calls[r2])
        /\ Len(calls[r1]) > 0 /\ Len(calls[r2]) > 0

\* Requests are in progress, and calls have been issued, only on the open
\* channel.
C14_ServedOnOpenChannel ==
    /\ \A r \in Reqs : Running(r) => channel = "open"
    /\ channel = "none" => issued = 0 /\ \A r \in Reqs : pc[r] = "idle"

\* The channel changes only from none to open, by the startup, and from
\* open to closed, by the shutdown: no handler step touches it.
C14_ChannelSteps ==
    channel' # channel
    => \/ lifespan_startup /\ channel = "none" /\ channel' = "open"
       \/ lifespan_shutdown /\ channel = "open" /\ channel' = "closed"

\* C14: the backend channel is created once, at startup and before any
\* request is handled, is never replaced or changed by a handler, and is
\* closed once, at shutdown.
C14_ChannelLifecycle == []C14_ServedOnOpenChannel /\ [][C14_ChannelSteps]_vars

\* The channel closed after requests were answered on it.
C14_Witness ==
    /\ channel = "closed"
    /\ issued > 0
    /\ \E r \in Reqs : Done(r)

\* A RemoveTodo call answers success=True only as it removes a stored row.
C15_SuccessRemovesAStoredRow ==
    \A r \in Reqs, i \in BatchIndex :
        (/\ i \in DOMAIN calls[r]
         /\ ~Settled(calls[r][i])
         /\ calls'[r][i].res = RemoveTodoResponse(TRUE))
        => /\ calls[r][i].id \in DOMAIN db
           /\ calls[r][i].id \notin DOMAIN db'

\* C15: each stored todo is reported as deleted by at most one RemoveTodo
\* call: every success=True goes with the removal of a row that was stored,
\* so a delete batch naming one stored id twice counts one success.
C15_DeletedAtMostOnce == [][C15_SuccessRemovesAStoredRow]_vars

\* The answer of a backend call that says the row was not found.
SaysNotFound(c) ==
    \/ c.res.kind = "err" /\ c.res.code = "NOT_FOUND"
    \/ c.rpc = "RemoveTodo" /\ c.res.kind = "ok" /\ ~c.res.success

\* A step in which an EditTodo or RemoveTodo call is answered not found
\* is one that found no row for the id and leaves the table as it was.
C16_NotFoundStep ==
    \A r \in Reqs, i \in BatchIndex :
        (/\ i \in DOMAIN calls[r]
         /\ calls[r][i].rpc \in {"EditTodo", "RemoveTodo"}
         /\ ~Settled(calls[r][i])
         /\ Settled(calls'[r][i])
         /\ SaysNotFound(calls'[r][i]))
        => /\ calls[r][i].id \notin DOMAIN db
           /\ db' = db

\* An update or delete answered 404 is one whose backend call was answered
\* not found.
C16_NotFoundAnswer ==
    \A r \in Reqs :
        (Done(r) /\ handler[r] \in {"update_todo", "delete_todo"} /\ http[r].status = 404)
        => SaysNotFound(calls[r][1]) /\ calls[r][1].seen = "absent"

\* C16: an update or delete that reports not found leaves the store
\* unchanged: it creates, modifies and removes no todo.
C16_NotFoundLeavesStore == []C16_NotFoundAnswer /\ [][C16_NotFoundStep]_vars

\* An update answered 404 while the store holds another todo.
C16_Witness ==
    \E r \in Reqs :
        /\ Done(r) /\ handler[r] = "update_todo" /\ http[r].status = 404
        /\ calls[r][1].id \notin DOMAIN db
        /\ DOMAIN db # {}

\* The indexes of the request's own calls that were answered without error.
OwnOk(r) == {i \in DOMAIN calls[r] : CallOk(calls[r][i])}

\* The answer a batch request's own calls stand for: a create batch whose
\* calls all succeeded lists them in order, one with a failed call is an
\* HTTP 500; a delete batch counts its own removals.
OwnAnswer(r) ==
    IF handler[r] = "create_todos_batch"
    THEN IF OwnOk(r) = DOMAIN calls[r]
         THEN Response(201, [success_count |-> Len(calls[r]),
                             failure_count |-> 0,
                             results |-> [i \in DOMAIN calls[r] |->
                                 TodoResponse(calls[r][i].res.id, calls[r][i].res.task)]])
         ELSE HTTPException(500, <<"ValidationError", "BatchResponse">>)
    ELSE Response(200, [success_count |-> Cardinality(Removed(r)),
                        failure_count |-> Len(calls[r]) - Cardinality(Removed(r)),
                        results |-> <<>>])

\* C17: the response of a batch request is computed from the outcomes of
\* its own backend calls only, whatever the other requests handled
\* concurrently did.
C17_OwnOutcomesOnly ==
    \A r \in Reqs : (Done(r) /\ IsBatch(r)) => http[r] = OwnAnswer(r)

\* A delete batch answered with no failure while the other request is a
\* delete batch holding a failed call.
C17_Witness ==
    \E r1, r2 \in Reqs :
        /\ r1 # r2
        /\ Done(r1) /\ handler[r1] = "delete_todos_batch"
        /\ Len(calls[r1]) > 0
        /\ http[r1].body.failure_count = 0
        /\ handler[r2] = "delete_todos_batch"
        /\ \E i \in DOMAIN calls[r2] : Settled(calls[r2][i]) /\ i \notin Removed(r2)

\* A step that takes a request out of the guarded region releases the lock,
\* whether the request answers with a response or with an HTTP 500.
C18_ReleasedOnExit ==
    \A r \in Reqs : (pc[r] = "locked" /\ pc'[r] # "locked") => logging_lock' = 0

\* A batch request in flight is eventually answered.
C18_Answered == \A r \in Reqs : (IsBatch(r) /\ Running(r)) ~> Done(r)

\* C18: when every backend call eventually settles every batch request
\* eventually returns a response: the lock is released on every way out of
\* the guarded region, so no batch request waits for it for ever.
C18_BatchEventuallyReturns == [][C18_ReleasedOnExit]_vars /\ C18_Answered

\* A batch request whose calls have all settled waits for the lock while the
\* other batch request, which answers with an HTTP 500, holds it.
C18_Witness ==
    \E r1, r2 \in Reqs :
        /\ pc[r1] = "locked" /\ logging_lock = r1
        /\ handler[r1] = "create_todos_batch"
        /\ \E i \in DOMAIN calls[r1] : CallFailed(calls[r1][i])
        /\ IsBatch(r2) /\ pc[r2] = "await" /\ GatherDone(calls[r2])

====
